---- MODULE Spec2Model ----
(***************************************************************************)
(* Model of the authenticated streaming API client of the zerox-ai         *)
(* frontend:                                                               *)
(*   - frontend/src/utils/api.js : the axios client `api` with its request *)
(*     and response interceptors (credential attachment, refresh and       *)
(*     replay) and the fetch-based stream helper `streamChat`;             *)
(*   - the Chat page (handleSendMessage, loadConversation, handleNewChat,  *)
(*     handleDeleteConversation and the three stream callbacks) and        *)
(*     ChatInput.handleSubmit;                                             *)
(*   - frontend/src/context/AuthContext.jsx : checkAuth, login, register   *)
(*     and logout of AuthProvider.                                         *)
(*                                                                         *)
(* Text is modelled as a sequence of one-character strings, so that the    *)
(* decoder's split('\n'), startsWith('data: '), slice(6) and JSON.parse    *)
(* are computed on characters, as the code computes them.                  *)
(***************************************************************************)
EXTENDS Integers, Sequences, FiniteSets, TLC

VARIABLES
    store,                \* localStorage: access_token / refresh_token
    calls,                \* call descriptors sent through the axios client
    nextGen,              \* the next credential pair the backend will issue
    redirected,           \* window.location.href = '/login' was assigned
    messages,             \* Chat: useState messages
    isLoading,            \* Chat: useState isLoading
    isStreaming,          \* Chat: useState isStreaming
    currentConversation,  \* Chat: useState currentConversation
    view,                 \* the values the last render closed over
    streams,              \* one streamChat invocation per accepted turn
    turns,                \* number of streamChat invocations so far
    crashed,              \* a state updater threw: the Chat tree is unmounted
    loads,                \* loadConversation calls awaiting getConversation
    user                  \* AuthProvider: useState user

vars == <<store, calls, nextGen, redirected, messages, isLoading, isStreaming,
          currentConversation, view, streams, turns, crashed, loads, user>>

authVars == <<store, calls, nextGen, redirected, user>>
chatVars == <<messages, isLoading, isStreaming, currentConversation, view,
              streams, turns, crashed, loads>>

(***************************************************************************)
(* Bounds of the model.                                                    *)
(***************************************************************************)
MaxCalls == 2           \* call descriptors in flight through the axios client
MaxGen == 3             \* credential pairs the backend issues
MaxTurns == 2           \* streamChat invocations
MaxLinesPerRead == 3    \* whole lines one read() may deliver
CutAt == 12             \* a read() may end this many characters into a line
MaxLoads == 1           \* loadConversation calls awaiting their response

(***************************************************************************)
(* Characters and text.                                                    *)
(***************************************************************************)
NL == "\n"
Quote == "\""
Digits == {"0", "1", "2", "3", "4", "5", "6", "7", "8", "9"}

DigitVal(c) ==
    CASE c = "0" -> 0 [] c = "1" -> 1 [] c = "2" -> 2 [] c = "3" -> 3
      [] c = "4" -> 4 [] c = "5" -> 5 [] c = "6" -> 6 [] c = "7" -> 7
      [] c = "8" -> 8 [] c = "9" -> 9

DigitChar(n) ==
    CASE n = 0 -> "0" [] n = 1 -> "1" [] n = 2 -> "2" [] n = 3 -> "3"
      [] n = 4 -> "4" [] n = 5 -> "5" [] n = 6 -> "6" [] n = 7 -> "7"
      [] n = 8 -> "8" [] n = 9 -> "9"

\* s[i], or "" past either end of s
At(s, i) == IF i \in 1..Len(s) THEN s[i] ELSE ""

\* String.prototype.startsWith
StartsWith(s, p) == Len(s) >= Len(p) /\ SubSeq(s, 1, Len(p)) = p

\* the least element of a non-empty set of integers
Least(S) == CHOOSE x \in S : \A y \in S : x <= y

\* String.prototype.split('\n'): the pieces between the newlines of s
RECURSIVE Split(_)
Split(s) ==
    LET nls == {i \in 1..Len(s) : s[i] = NL}
    IN  IF nls = {} THEN <<s>>
        ELSE LET i == Least(nls)
             IN  <<SubSeq(s, 1, i - 1)>> \o Split(SubSeq(s, i + 1, Len(s)))

(***************************************************************************)
(* JSON values and JSON.parse (api.js:125).  The grammar covered is that   *)
(* of the protocol's payloads: objects whose members are strings, numbers, *)
(* true, false, null or objects; no white space, no escapes, no arrays.    *)
(***************************************************************************)
JUndef == [t |-> "undefined", s |-> <<>>, n |-> 0, m |-> <<>>]
JNull == [t |-> "null", s |-> <<>>, n |-> 0, m |-> <<>>]
JTrue == [t |-> "true", s |-> <<>>, n |-> 0, m |-> <<>>]
JFalse == [t |-> "false", s |-> <<>>, n |-> 0, m |-> <<>>]
JStr(s) == [t |-> "string", s |-> s, n |-> 0, m |-> <<>>]
JNum(n) == [t |-> "number", s |-> <<>>, n |-> n, m |-> <<>>]
JObj(m) == [t |-> "object", s |-> <<>>, n |-> 0, m |-> m]

ParseFail == [ok |-> FALSE, v |-> JUndef, next |-> 0]
ParseOk(v, next) == [ok |-> TRUE, v |-> v, next |-> next]

\* a string literal opening at s[i]
ParseString(s, i) ==
    LET closing == {j \in (i + 1)..Len(s) : s[j] = Quote}
    IN  IF closing = {} THEN ParseFail
        ELSE LET j == Least(closing)
             IN  ParseOk(JStr(SubSeq(s, i + 1, j - 1)), j + 1)

RECURSIVE DigitsValue(_, _, _)
DigitsValue(s, i, acc) ==
    IF At(s, i) \in Digits
    THEN DigitsValue(s, i + 1, 10 * acc + DigitVal(s[i]))
    ELSE ParseOk(JNum(acc), i)

\* a number opening at s[i]: 0, or a digit 1-9 followed by digits
ParseNumber(s, i) ==
    IF s[i] = "0" THEN ParseOk(JNum(0), i + 1) ELSE DigitsValue(s, i, 0)

\* the literal word w (true, false, null) at s[i]
ParseWord(s, i, w, v) ==
    IF i + Len(w) - 1 <= Len(s) /\ SubSeq(s, i, i + Len(w) - 1) = w
    THEN ParseOk(v, i + Len(w))
    ELSE ParseFail

RECURSIVE ParseValue(_, _)
RECURSIVE ParseMembers(_, _, _)

ParseValue(s, i) ==
    LET c == At(s, i)
    IN  CASE c = Quote -> ParseString(s, i)
          [] c \in Digits -> ParseNumber(s, i)
          [] c = "t" -> ParseWord(s, i, <<"t", "r", "u", "e">>, JTrue)
          [] c = "f" -> ParseWord(s, i, <<"f", "a", "l", "s", "e">>, JFalse)
          [] c = "n" -> ParseWord(s, i, <<"n", "u", "l", "l">>, JNull)
          [] c = "{" -> IF At(s, i + 1) = "}"
                        THEN ParseOk(JObj(<<>>), i + 2)
                        ELSE ParseMembers(s, i + 1, <<>>)
          [] OTHER -> ParseFail

\* the members of an object from s[i] on, up to and including its brace
ParseMembers(s, i, acc) ==
    IF At(s, i) # Quote THEN ParseFail
    ELSE LET k == ParseString(s, i)
         IN  IF ~k.ok \/ At(s, k.next) # ":" THEN ParseFail
             ELSE LET v == ParseValue(s, k.next + 1)
                  IN  IF ~v.ok THEN ParseFail
                      ELSE LET acc2 == Append(acc, <<k.v.s, v.v>>)
                           IN  CASE At(s, v.next) = "," ->
                                        ParseMembers(s, v.next + 1, acc2)
                                 [] At(s, v.next) = "}" ->
                                        ParseOk(JObj(acc2), v.next + 1)
                                 [] OTHER -> ParseFail

\* JSON.parse(text): ok is FALSE where JSON.parse throws a SyntaxError
JSONParse(text) ==
    LET r == ParseValue(text, 1)
    IN  IF r.ok /\ r.next = Len(text) + 1 THEN r ELSE ParseFail

\* data[key]: the last member named key, undefined when there is none
Get(data, key) ==
    LET hits == {i \in 1..Len(data.m) : data.m[i][1] = key}
    IN  IF data.t # "object" \/ hits = {} THEN JUndef
        ELSE data.m[CHOOSE i \in hits : \A j \in hits : j <= i][2]

\* the truthiness an `if (value)` tests
Truthy(v) ==
    CASE v.t = "string" -> v.s # <<>>
      [] v.t = "number" -> v.n # 0
      [] v.t = "true" -> TRUE
      [] v.t = "object" -> TRUE
      [] OTHER -> FALSE

RECURSIVE NatText(_)
NatText(n) ==
    IF n < 10 THEN <<DigitChar(n)>>
    ELSE NatText(n \div 10) \o <<DigitChar(n % 10)>>

\* the text a value takes in string concatenation and in a template literal
JSString(v) ==
    CASE v.t = "string" -> v.s
      [] v.t = "number" -> NatText(v.n)
      [] v.t = "true" -> <<"t", "r", "u", "e">>
      [] v.t = "false" -> <<"f", "a", "l", "s", "e">>
      [] v.t = "null" -> <<"n", "u", "l", "l">>
      [] v.t = "object" -> <<"[", "o", "b", "j", "e", "c", "t", " ",
                             "O", "b", "j", "e", "c", "t", "]">>
      [] OTHER -> <<"u", "n", "d", "e", "f", "i", "n", "e", "d">>

(***************************************************************************)
(* The stream decoder: the body of streamChat's read loop (api.js:119-139) *)
(* as a function from one decoded chunk to the callbacks it invokes, in    *)
(* the order it invokes them.                                              *)
(***************************************************************************)
Prefix == <<"d", "a", "t", "a", ":", " ">>
KContent == <<"c", "o", "n", "t", "e", "n", "t">>
KDone == <<"d", "o", "n", "e">>
KConversationId == <<"c", "o", "n", "v", "e", "r", "s", "a", "t", "i", "o", "n",
                     "_", "i", "d">>
KError == <<"e", "r", "r", "o", "r">>
KDetail == <<"d", "e", "t", "a", "i", "l">>

Callback(cb, arg) == [cb |-> cb, arg |-> arg]

\* a decoder that takes a payload for the first of the three forms it fits
FrameCallbacksFirstMatch(data) ==
    IF Truthy(Get(data, KContent))
    THEN <<Callback("onChunk", Get(data, KContent))>>
    ELSE IF Truthy(Get(data, KDone))
    THEN <<Callback("onDone", Get(data, KConversationId))>>
    ELSE IF Truthy(Get(data, KError))
    THEN <<Callback("onError", Get(data, KError))>>
    ELSE <<>>

\* api.js:126-134: the three tests made on one parsed payload
FrameCallbacks(data) ==
    (IF Truthy(Get(data, KContent))
     THEN <<Callback("onChunk", Get(data, KContent))>> ELSE <<>>)
    \o (IF Truthy(Get(data, KDone))
        THEN <<Callback("onDone", Get(data, KConversationId))>> ELSE <<>>)
    \o (IF Truthy(Get(data, KError))
        THEN <<Callback("onError", Get(data, KError))>> ELSE <<>>)

\* api.js:123-138: one line of a chunk.  A payload that does not parse, and
\* the TypeError of reading a property of null, end in the empty catch.
LineCallbacks(line) ==
    IF ~StartsWith(line, Prefix) THEN <<>>
    ELSE LET r == JSONParse(SubSeq(line, Len(Prefix) + 1, Len(line)))
         IN  IF ~r.ok \/ r.v.t = "null" THEN <<>> ELSE FrameCallbacks(r.v)

RECURSIVE LinesCallbacks(_)
LinesCallbacks(lines) ==
    IF lines = <<>> THEN <<>>
    ELSE LineCallbacks(Head(lines)) \o LinesCallbacks(Tail(lines))

\* api.js:119-139: decoder.decode(value), split('\n') and the loop over the
\* lines of this chunk alone; nothing is carried over to the next read
ChunkCallbacks(chunk) == LinesCallbacks(Split(chunk))

(***************************************************************************)
(* What the backend writes on the stream: lines, each ended by a newline.  *)
(***************************************************************************)
TextOfString(s) == <<Quote>> \o s \o <<Quote>>
Member(k, valueText) == TextOfString(k) \o <<":">> \o valueText
ObjectText(members) == <<"{">> \o members \o <<"}">>

ContentLine(s) == Prefix \o ObjectText(Member(KContent, TextOfString(s)))
DoneLine(id) ==
    Prefix \o ObjectText(Member(KDone, <<"t", "r", "u", "e">>) \o <<",">>
                         \o Member(KConversationId, NatText(id)))
ErrorLine(s) == Prefix \o ObjectText(Member(KError, TextOfString(s)))
\* a prefixed line whose payload is not JSON: {"content":
MalformedLine == Prefix \o <<"{">> \o TextOfString(KContent) \o <<":">>

RECURSIVE Wire(_)
Wire(lines) ==
    IF lines = <<>> THEN <<>> ELSE Head(lines) \o <<NL>> \o Wire(Tail(lines))

\* the bodies the backend answers a streaming call with
Scripts ==
    { <<ContentLine(<<"A">>), ContentLine(<<"B">>), DoneLine(7)>>,
      <<ContentLine(<<"h", "i">>)>>,
      <<ContentLine(<<"A">>), MalformedLine, ContentLine(<<"B">>)>>,
      <<ContentLine(<<"A">>), ErrorLine(<<"x">>)>>,
      <<ErrorLine(<<"x">>), ContentLine(<<"A">>), DoneLine(7)>> }

\* shorter bodies, for the runs with several turns
ShortScripts ==
    { <<ContentLine(<<"A">>), DoneLine(7)>>,
      <<ErrorLine(<<"x">>)>>,
      <<ContentLine(<<"A">>)>> }

\* lines outside the three forms of the protocol: a line without the
\* prefix, and prefixed lines whose payloads are {}, null and an object
\* with both a fragment and a completion
PlainLine == <<"p", "i", "n", "g">>
EmptyObjectLine == Prefix \o ObjectText(<<>>)
NullLine == Prefix \o <<"n", "u", "l", "l">>
ContentDoneLine ==
    Prefix \o ObjectText(Member(KContent, TextOfString(<<"A">>)) \o <<",">>
                         \o Member(KDone, <<"t", "r", "u", "e">>) \o <<",">>
                         \o Member(KConversationId, NatText(7)))

\* bodies that hold every kind of line
FrameScripts ==
    { <<PlainLine, ContentLine(<<"A">>), DoneLine(7)>>,
      <<EmptyObjectLine, ContentLine(<<>>), ErrorLine(<<"x">>)>>,
      <<ContentDoneLine, NullLine, MalformedLine>> }

(***************************************************************************)
(* Credentials and headers.                                                *)
(***************************************************************************)
\* localStorage.getItem of a key that is not stored (null)
NoToken == 0

\* the pair the backend issued g-th: access token g and refresh token g
Pair(g) == [access |-> g, refresh |-> g]
EmptyStore == [access |-> NoToken, refresh |-> NoToken]

\* no Authorization header / the header `Bearer ${token}`; Bearer(NoToken)
\* is the text "Bearer null"
NoHeader == <<>>
Bearer(token) == <<"Bearer", token>>

\* api.js:95-103: streamChat reads the access token and always builds the
\* header from it
StreamRequestHeader(st) == Bearer(st.access)

(***************************************************************************)
(* The axios client `api` and its interceptors (api.js:5-56).              *)
(***************************************************************************)
Unauthorized == 401

\* what a call may be answered with: a success status, 401, another error
\* status, or no response at all (0: a network failure)
Statuses == {200, Unauthorized, 500, 0}

\* the statuses for which response.ok is false
ErrorStatuses == {Unauthorized, 500}

\* a call descriptor (the axios config of one call) and what became of it:
\* phase is idle, sent, refreshing, replaying or settled; retry is _retry;
\* auth is the Authorization header of its last transmission; sent counts
\* its transmissions and refreshes the refresh exchanges made for it;
\* refresh is none, pending, succeeded or failed; refreshToken is the
\* refresh_token the exchange posted; error is the error the interceptor
\* holds, and result the state of the promise the caller got; kind names the
\* caller: a plain call, or checkAuth, login, register or logout of
\* AuthContext, whose code after the await is still to run
NoError == [attempt |-> "none", status |-> 0]
NoCall ==
    [phase |-> "idle", retry |-> FALSE, auth |-> NoHeader, sent |-> 0,
     refreshes |-> 0, refresh |-> "none", refreshToken |-> NoToken,
     error |-> NoError, result |-> "pending", kind |-> "call"]

\* api.js:13-20: the request interceptor; header is what the config holds
ApiRequestHeader(st, header) ==
    IF st.access # NoToken THEN Bearer(st.access) ELSE header

\* a guard that starts a refresh for every failure
ShouldRefreshOnAnyFailure(status, retry) == ~retry

\* a guard that lets one refresh exchange run at a time
ShouldRefreshSingleFlight(status, retry) ==
    /\ status = Unauthorized
    /\ ~retry
    /\ \A d \in DOMAIN calls : calls[d].phase # "refreshing"

\* a guard that forgets the _retry flag
ShouldRefreshIgnoringRetry(status, retry) == status = Unauthorized

\* api.js:30
ShouldRefresh(status, retry) == status = Unauthorized /\ ~retry

\* a refresh that stores nothing before the replay
StoreAfterRefreshNotWritten(st, pair) == st

\* a refresh that stores the new access token alone
StoreAfterRefreshAccessOnly(st, pair) == [st EXCEPT !.access = pair.access]

\* api.js:40-42: both items are set with no await in between
StoreAfterRefresh(st, pair) ==
    [st EXCEPT !.access = pair.access, !.refresh = pair.refresh]

\* a failure path that removes the access token alone
StoreAfterRefreshFailureAccessOnly(st) == [st EXCEPT !.access = NoToken]

\* api.js:48-49
StoreAfterRefreshFailure(st) ==
    [st EXCEPT !.access = NoToken, !.refresh = NoToken]

\* a login that stores the access token alone
StoreAfterLoginAccessOnly(st, pair) == [st EXCEPT !.access = pair.access]

\* AuthContext.jsx:47-48 and 70-71: login and register store the pair of the
\* response with no await in between
StoreAfterLogin(st, pair) ==
    [st EXCEPT !.access = pair.access, !.refresh = pair.refresh]

\* AuthContext.jsx:15 and 90: the user the provider holds
NoUser == "null"
SomeUser == "user"

\* a logout that leaves the stored credentials alone
StoreAfterLogoutUntouched(st) == st

\* AuthContext.jsx:88-89
StoreAfterLogout(st) ==
    [st EXCEPT !.access = NoToken, !.refresh = NoToken]

\* AuthContext.jsx:34-35
StoreAfterCheckAuthFailure(st) ==
    [st EXCEPT !.access = NoToken, !.refresh = NoToken]

Calls == 1..MaxCalls

\* descriptors are numbered in the order in which the calls are made
IsNextDescriptor(c) ==
    /\ calls[c].phase = "idle"
    /\ \A d \in Calls : d < c => calls[d].phase # "idle"

(***************************************************************************)
(* The Chat page.                                                          *)
(***************************************************************************)
NullConversation == [set |-> FALSE, id |-> JUndef]
Conversation(id) == [set |-> TRUE, id |-> id]

\* a conversation opened before, and the messages loaded for it
ExistingConversation == Conversation(JNum(3))
LoadedMessages ==
    << [id |-> -2, role |-> "user", content |-> <<"q">>],
       [id |-> -1, role |-> "assistant", content |-> <<"r">>] >>

\* what a user may submit
Inputs == {<<"h", "e", "y">>}

\* Date.now() of the turn-th accepted turn
Now(turn) == 2 * turn

\* part_005:351-356 and 362-368
UserMessage(turn, content) ==
    [id |-> Now(turn), role |-> "user", content |-> content]
AssistantPlaceholder(turn) ==
    [id |-> Now(turn) + 1, role |-> "assistant", content |-> <<>>]

\* what a render closes over: handleSendMessage's isLoading, isStreaming and
\* currentConversation (part_005:415), ChatInput's disabled (part_005:502)
\* and whether the suggestion buttons are shown (part_005:456)
Snapshot ==
    [isLoading |-> isLoading, isStreaming |-> isStreaming,
     currentConversation |-> currentConversation, empty |-> messages = <<>>]

\* a streamChat invocation: where it stands (none, fetching, errorBody,
\* reading, ended: it returned from the loop, failed: its catch ran), the
\* currentConversation its callbacks closed over, the Authorization header
\* it sent, the number of times it called fetch, the status of the response
\* (0: none), the response body, the chunks read() has delivered of it, the
\* bytes still to come, the callbacks invoked so far, and the conversation
\* ids whose loadConversations().then(...) is pending
NoStream ==
    [phase |-> "none", conv |-> NullConversation, auth |-> NoHeader,
     sent |-> 0, status |-> 0, body |-> <<>>, chunks |-> <<>>, wire |-> <<>>, log |-> <<>>,
     adopting |-> <<>>]

\* the React state the stream callbacks write
ChatState ==
    [messages |-> messages, isLoading |-> isLoading,
     isStreaming |-> isStreaming, crashed |-> crashed, adopting |-> <<>>]

ErrorPrefix == <<"E", "r", "r", "o", "r", ":", " ">>

\* an update that adds e to q instead of replacing the last element
AppendInstead(q, e) == Append(q, e)

\* the sequence q with its last element replaced by e
ReplaceLast(q, e) == [q EXCEPT ![Len(q)] = e]

\* part_005:379-388.  updated[updated.length - 1] of an empty list is
\* undefined, and reading its role throws inside the updater.
OnChunk(st, chunk) ==
    IF st.crashed THEN st
    ELSE IF st.messages = <<>> THEN [st EXCEPT !.crashed = TRUE]
    ELSE LET lastMsg == st.messages[Len(st.messages)]
         IN  IF lastMsg.role = "assistant"
             THEN [st EXCEPT !.messages = ReplaceLast(@,
                      [lastMsg EXCEPT !.content = @ \o JSString(chunk)])]
             ELSE st

\* part_005:390-400.  conv is the currentConversation handleSendMessage
\* closed over; loadConversations().then(...) is left pending in adopting.
OnDone(st, conversationId, conv) ==
    IF st.crashed THEN st
    ELSE [st EXCEPT !.isLoading = FALSE, !.isStreaming = FALSE,
                    !.adopting = IF conv.set THEN @
                                 ELSE Append(@, conversationId)]

\* part_005:402-413
OnError(st, error) ==
    IF st.crashed THEN st
    ELSE LET st1 == [st EXCEPT !.isLoading = FALSE, !.isStreaming = FALSE]
         IN  IF st1.messages = <<>> THEN [st1 EXCEPT !.crashed = TRUE]
             ELSE LET lastMsg == st1.messages[Len(st1.messages)]
                  IN  IF lastMsg.role = "assistant"
                      THEN [st1 EXCEPT !.messages = ReplaceLast(@,
                               [lastMsg EXCEPT
                                   !.content = ErrorPrefix \o JSString(error)])]
                      ELSE st1

Invoke(st, c, conv) ==
    CASE c.cb = "onChunk" -> OnChunk(st, c.arg)
      [] c.cb = "onDone" -> OnDone(st, c.arg, conv)
      [] c.cb = "onError" -> OnError(st, c.arg)

\* the callbacks cbs invoked one after the other
RECURSIVE InvokeAll(_, _, _)
InvokeAll(st, cbs, conv) ==
    IF cbs = <<>> THEN st
    ELSE InvokeAll(Invoke(st, Head(cbs), conv), Tail(cbs), conv)

\* stream t invokes cbs and goes on as next
Deliver(t, cbs, next) ==
    LET st == InvokeAll(ChatState, cbs, streams[t].conv)
    IN  /\ messages' = st.messages
        /\ isLoading' = st.isLoading
        /\ isStreaming' = st.isStreaming
        /\ crashed' = st.crashed
        /\ streams' = [streams EXCEPT
                          ![t] = [next EXCEPT
                                     !.log = @ \o cbs,
                                     !.adopting = @ \o st.adopting]]
        /\ UNCHANGED <<currentConversation, view, turns, loads>>

\* React renders the component again: the handlers of the page now close
\* over the current state
Render ==
    /\ ~crashed
    /\ view # Snapshot
    /\ view' = Snapshot
    /\ UNCHANGED <<messages, isLoading, isStreaming, currentConversation,
                   streams, turns, crashed, loads>>
    /\ UNCHANGED authVars

\* part_005:348-372 with api.js:94-105: the guard on the values the handler
\* closed over, the two appends, and streamChat up to its fetch
HandleSendMessage(content) ==
    IF view.isLoading \/ view.isStreaming
    THEN UNCHANGED vars
    ELSE /\ turns < MaxTurns
         /\ turns' = turns + 1
         /\ messages' = messages \o <<UserMessage(turns + 1, content),
                                      AssistantPlaceholder(turns + 1)>>
         /\ isLoading' = TRUE
         /\ isStreaming' = TRUE
         /\ streams' = [streams EXCEPT ![turns + 1] =
                           [NoStream EXCEPT
                               !.phase = "fetching",
                               !.conv = view.currentConversation,
                               !.auth = StreamRequestHeader(store),
                               !.sent = 1]]
         /\ UNCHANGED <<currentConversation, view, crashed, loads>>
         /\ UNCHANGED authVars

\* part_000:23-29: ChatInput.handleSubmit, disabled = isLoading of the render
HandleSubmit(content) ==
    /\ ~crashed
    /\ IF ~view.isLoading THEN HandleSendMessage(content) ELSE UNCHANGED vars

\* part_005:474-476: a suggestion button, shown while the list is empty
ClickSuggestion(content) ==
    /\ ~crashed
    /\ view.empty
    /\ HandleSendMessage(content)

\* part_005:336-339
HandleNewChat ==
    /\ ~crashed
    /\ currentConversation' = NullConversation
    /\ messages' = <<>>
    /\ UNCHANGED <<isLoading, isStreaming, view, streams, turns, crashed, loads>>
    /\ UNCHANGED authVars

\* part_005:324-330: a conversation of the sidebar is selected;
\* loadConversation up to its await
LoadConversation ==
    /\ ~crashed
    /\ loads < MaxLoads
    /\ loads' = loads + 1
    /\ currentConversation' = ExistingConversation
    /\ UNCHANGED <<messages, isLoading, isStreaming, view, streams, turns,
                   crashed>>
    /\ UNCHANGED authVars

\* part_005:330-333: getConversation settles; a failure is only logged
LoadConversationReturns(ok) ==
    /\ loads > 0
    /\ loads' = loads - 1
    /\ messages' = IF ok /\ ~crashed THEN LoadedMessages ELSE messages
    /\ UNCHANGED <<isLoading, isStreaming, currentConversation, view, streams,
                   turns, crashed>>
    /\ UNCHANGED authVars

\* the ids of the conversations the sidebar lists
ConversationIds == {JNum(3), JNum(7)}

\* part_005:341-346: the test is made on the currentConversation of the
\* render
HandleDeleteConversation(id) ==
    /\ ~crashed
    /\ IF view.currentConversation.set /\ view.currentConversation.id = id
       THEN HandleNewChat
       ELSE UNCHANGED vars

\* part_005:396-398: loadConversations() has settled and its then() runs
AdoptConversation(t) ==
    /\ streams[t].adopting # <<>>
    /\ currentConversation' =
           IF crashed THEN currentConversation
           ELSE Conversation(Head(streams[t].adopting))
    /\ streams' = [streams EXCEPT ![t].adopting = Tail(@)]
    /\ UNCHANGED <<messages, isLoading, isStreaming, view, turns, crashed,
                   loads>>
    /\ UNCHANGED authVars

(***************************************************************************)
(* streamChat after its fetch (api.js:98-143).                             *)
(***************************************************************************)
FailedToSendMessage ==
    <<"F", "a", "i", "l", "e", "d", " ", "t", "o", " ", "s", "e", "n", "d", " ",
      "m", "e", "s", "s", "a", "g", "e">>
\* the messages of the errors the platform throws
FetchErrorMessage == <<"F", "a", "i", "l", "e", "d", " ", "t", "o", " ",
                       "f", "e", "t", "c", "h">>
SyntaxErrorMessage == <<"U", "n", "e", "x", "p", "e", "c", "t", "e", "d", " ",
                        "t", "o", "k", "e", "n">>

\* the bodies of the backend's error responses
ErrorBodies ==
    { ObjectText(Member(KDetail, TextOfString(<<"n", "o">>))),
      ObjectText(<<>>),
      <<"<">> }

\* api.js:108-109 and 141-143: the message onError gets for an error body
ErrorBodyMessage(body) ==
    LET r == JSONParse(body)
    IN  IF ~r.ok THEN JStr(SyntaxErrorMessage)
        ELSE IF Truthy(Get(r.v, KDetail)) THEN JStr(JSString(Get(r.v, KDetail)))
        ELSE JStr(FailedToSendMessage)

\* the lengths a read() of the remaining bytes w may have: up to
\* MaxLinesPerRead whole lines or, with midLine, a piece that ends CutAt
\* characters into a line
ReadLengths(w, midLine) ==
    LET nls == {i \in 1..Len(w) : w[i] = NL}
        before(i) == Cardinality({j \in nls : j <= i})
        ends == {i \in nls : before(i) <= MaxLinesPerRead}
        starts == {0} \cup {i \in nls : before(i) < MaxLinesPerRead}
        cuts == {p + CutAt : p \in starts}
    IN  ends \cup {n \in cuts : /\ midLine
                                /\ n <= Len(w)
                                /\ \A k \in (n - CutAt + 1)..n : w[k] # NL}

\* fetch settles: a success status with a body, an error status, or a
\* rejection (api.js:98-110, 141-143)
StreamResponse(t, scripts) ==
    /\ streams[t].phase = "fetching"
    /\ \/ \E script \in scripts :
              Deliver(t, <<>>, [streams[t] EXCEPT !.phase = "reading",
                                                 !.status = 200,
                                                 !.body = Wire(script),
                                                 !.wire = Wire(script)])
       \/ \E status \in ErrorStatuses :
              Deliver(t, <<>>, [streams[t] EXCEPT !.phase = "errorBody",
                                                 !.status = status])
       \/ Deliver(t, <<Callback("onError", JStr(FetchErrorMessage))>>,
                  [streams[t] EXCEPT !.phase = "failed"])
    /\ UNCHANGED authVars

\* api.js:108-109, 141-143: response.json() of an error response settles
StreamErrorBody(t) ==
    /\ streams[t].phase = "errorBody"
    /\ \E body \in ErrorBodies :
           Deliver(t, <<Callback("onError", ErrorBodyMessage(body))>>,
                   [streams[t] EXCEPT !.phase = "failed", !.body = body])
    /\ UNCHANGED authVars

\* api.js:115-140: one reader.read() and the loop over its lines
StreamRead(t, midLine) ==
    /\ streams[t].phase = "reading"
    /\ IF streams[t].wire = <<>>
       THEN Deliver(t, <<>>, [streams[t] EXCEPT !.phase = "ended"])
       ELSE \E n \in ReadLengths(streams[t].wire, midLine) :
                LET chunk == SubSeq(streams[t].wire, 1, n)
                IN  Deliver(t, ChunkCallbacks(chunk),
                            [streams[t] EXCEPT
                                !.chunks = Append(@, chunk),
                                !.wire = SubSeq(@, n + 1, Len(@))])
    /\ UNCHANGED authVars

\* api.js:116, 141-143: reader.read() rejects (the connection dropped)
StreamReadFail(t) ==
    /\ streams[t].phase = "reading"
    /\ Deliver(t, <<Callback("onError", JStr(FetchErrorMessage))>>,
               [streams[t] EXCEPT !.phase = "failed"])
    /\ UNCHANGED authVars

Turns == 1..MaxTurns

InitChatState ==
    /\ \/ messages = <<>> /\ currentConversation = NullConversation
       \/ messages = LoadedMessages /\ currentConversation = ExistingConversation
    /\ isLoading = FALSE
    /\ isStreaming = FALSE
    /\ view = Snapshot
    /\ streams = [t \in Turns |-> NoStream]
    /\ turns = 0
    /\ crashed = FALSE
    /\ loads = 0

InitChat ==
    /\ store = Pair(1)
    /\ calls = [c \in Calls |-> NoCall]
    /\ nextGen = 2
    /\ redirected = FALSE
    /\ user = NoUser
    /\ InitChatState

\* one turn, with every way the body may be cut into reads
NextStream ==
    \/ Render
    \/ \E content \in Inputs : turns = 0 /\ HandleSubmit(content)
    \/ \E content \in Inputs : turns = 0 /\ ClickSuggestion(content)
    \/ HandleNewChat
    \/ \E t \in Turns : StreamResponse(t, Scripts)
    \/ \E t \in Turns : StreamErrorBody(t)
    \/ \E t \in Turns : StreamRead(t, TRUE)
    \/ \E t \in Turns : StreamReadFail(t)
    \/ \E t \in Turns : AdoptConversation(t)

SpecStream == InitChat /\ [][NextStream]_vars

\* the steps that need no user and no failure are eventually taken: React
\* renders, the fetch is answered, the error body and the reads are
\* delivered up to the end of the body, the reload promise resolves
StreamProgress ==
    /\ WF_vars(Render)
    /\ \A t \in Turns :
           /\ WF_vars(StreamResponse(t, Scripts))
           /\ WF_vars(StreamErrorBody(t))
           /\ WF_vars(StreamRead(t, TRUE))
           /\ WF_vars(AdoptConversation(t))

SpecStreamLive == SpecStream /\ StreamProgress

\* up to MaxTurns turns, each read delivering whole lines
NextChat ==
    \/ Render
    \/ \E content \in Inputs : HandleSubmit(content)
    \/ \E content \in Inputs : ClickSuggestion(content)
    \/ HandleNewChat
    \/ \E t \in Turns : StreamResponse(t, ShortScripts)
    \/ \E t \in Turns : StreamErrorBody(t)
    \/ \E t \in Turns : StreamRead(t, FALSE)
    \/ \E t \in Turns : StreamReadFail(t)
    \/ \E t \in Turns : AdoptConversation(t)

SpecChat == InitChat /\ [][NextChat]_vars

\* one turn, with the sidebar's operations
NextSession ==
    \/ Render
    \/ \E content \in Inputs : turns = 0 /\ HandleSubmit(content)
    \/ HandleNewChat
    \/ LoadConversation
    \/ \E ok \in BOOLEAN : LoadConversationReturns(ok)
    \/ \E id \in ConversationIds : HandleDeleteConversation(id)
    \/ \E t \in Turns : StreamResponse(t, ShortScripts)
    \/ \E t \in Turns : StreamErrorBody(t)
    \/ \E t \in Turns : StreamRead(t, FALSE)
    \/ \E t \in Turns : StreamReadFail(t)
    \/ \E t \in Turns : AdoptConversation(t)

SpecSession == InitChat /\ [][NextSession]_vars

\* one turn whose body holds every kind of line, read in whole lines
NextDecoder ==
    \/ Render
    \/ \E content \in Inputs : turns = 0 /\ HandleSubmit(content)
    \/ \E t \in Turns : StreamResponse(t, FrameScripts)
    \/ \E t \in Turns : StreamErrorBody(t)
    \/ \E t \in Turns : StreamRead(t, FALSE)
    \/ \E t \in Turns : AdoptConversation(t)

SpecDecoder == InitChat /\ [][NextDecoder]_vars

(***************************************************************************)
(* The calls through `api` (api.js:58-91) and the refresh exchange.        *)
(***************************************************************************)
\* one of authAPI, chatAPI, modelsAPI, adminAPI: api.get / api.post / ...
ApiSend(c) ==
    /\ IsNextDescriptor(c)
    /\ calls' = [calls EXCEPT ![c].phase = "sent",
                              ![c].auth = ApiRequestHeader(store, NoHeader),
                              ![c].sent = 1]
    /\ UNCHANGED <<store, nextGen, redirected, user>>
    /\ UNCHANGED chatVars

\* api.js:26-31, 34-38, 54: the answer to a transmission of the descriptor
\* arrives; up to the await of the refresh exchange
ApiResponse(c, status) ==
    /\ calls[c].phase \in {"sent", "replaying"}
    /\ LET e == [attempt |-> IF calls[c].phase = "sent" THEN "original"
                             ELSE "replay",
                 status |-> status]
       IN  IF status = 200
           THEN calls' = [calls EXCEPT ![c].phase = "settled",
                                       ![c].result = "resolved"]
           ELSE IF ShouldRefresh(status, calls[c].retry)
           THEN IF store.refresh # NoToken
                THEN calls' = [calls EXCEPT ![c].retry = TRUE,
                                            ![c].phase = "refreshing",
                                            ![c].refresh = "pending",
                                            ![c].refreshes = @ + 1,
                                            ![c].refreshToken = store.refresh,
                                            ![c].error = e]
                ELSE calls' = [calls EXCEPT ![c].retry = TRUE,
                                            ![c].phase = "settled",
                                            ![c].error = e,
                                            ![c].result = "rejected"]
           ELSE calls' = [calls EXCEPT ![c].phase = "settled",
                                       ![c].error = e,
                                       ![c].result = "rejected"]
    /\ UNCHANGED <<store, nextGen, redirected, user>>
    /\ UNCHANGED chatVars

\* api.js:40-45: the refresh exchange succeeded; the pair is stored, the
\* header set and the descriptor sent again through api
RefreshSucceeds(c) ==
    /\ calls[c].phase = "refreshing"
    /\ nextGen <= MaxGen
    /\ LET st == StoreAfterRefresh(store, Pair(nextGen))
       IN  /\ store' = st
           /\ calls' = [calls EXCEPT
                           ![c].phase = "replaying",
                           ![c].refresh = "succeeded",
                           ![c].auth = ApiRequestHeader(st, Bearer(nextGen)),
                           ![c].sent = @ + 1]
    /\ nextGen' = nextGen + 1
    /\ UNCHANGED <<redirected, user>>
    /\ UNCHANGED chatVars

\* api.js:47-51, 54: the refresh exchange failed
RefreshFails(c) ==
    /\ calls[c].phase = "refreshing"
    /\ store' = StoreAfterRefreshFailure(store)
    /\ redirected' = TRUE
    /\ calls' = [calls EXCEPT ![c].phase = "settled",
                              ![c].refresh = "failed",
                              ![c].result = "rejected"]
    /\ UNCHANGED <<nextGen, user>>
    /\ UNCHANGED chatVars

(***************************************************************************)
(* AuthProvider (AuthContext.jsx): each operation awaits one call through  *)
(* api; the code after the await runs when the call has settled.           *)
(***************************************************************************)
\* descriptor c is sent for the first time on behalf of kind
AuthCall(c, kind) ==
    /\ IsNextDescriptor(c)
    /\ calls' = [calls EXCEPT ![c] =
                    [NoCall EXCEPT !.kind = kind,
                                   !.phase = "sent",
                                   !.auth = ApiRequestHeader(store, NoHeader),
                                   !.sent = 1]]
    /\ UNCHANGED <<store, nextGen, redirected, user>>
    /\ UNCHANGED chatVars

\* AuthContext.jsx:19-31: checkAuth runs once, when the provider mounts and
\* before any other call is made, and calls getMe when an access token is
\* stored
CheckAuth(c) ==
    /\ \A d \in Calls : calls[d].phase = "idle"
    /\ store.access # NoToken
    /\ AuthCall(c, "getMe")

\* AuthContext.jsx:32-38: the answer of getMe becomes the user; any
\* failure of getMe removes both tokens
CheckAuthReturns(c) ==
    /\ calls[c].kind = "getMe"
    /\ calls[c].phase = "settled"
    /\ calls' = [calls EXCEPT ![c].phase = "returned"]
    /\ store' = IF calls[c].result = "rejected"
                THEN StoreAfterCheckAuthFailure(store)
                ELSE store
    /\ user' = IF calls[c].result = "rejected" THEN user ELSE SomeUser
    /\ UNCHANGED <<nextGen, redirected>>
    /\ UNCHANGED chatVars

\* AuthContext.jsx:41-44
Login(c) == AuthCall(c, "login")

\* AuthContext.jsx:59-67
Register(c) == AuthCall(c, "register")

\* AuthContext.jsx:45-56 and 68-79: the pair of the response is stored; a
\* failure is thrown to the page and stores nothing
SessionReturns(c, kind) ==
    /\ calls[c].kind = kind
    /\ calls[c].phase = "settled"
    /\ calls' = [calls EXCEPT ![c].phase = "returned"]
    /\ IF calls[c].result = "resolved"
       THEN /\ nextGen <= MaxGen
            /\ store' = StoreAfterLogin(store, Pair(nextGen))
            /\ nextGen' = nextGen + 1
            /\ user' = SomeUser
       ELSE UNCHANGED <<store, nextGen, user>>
    /\ UNCHANGED redirected
    /\ UNCHANGED chatVars

LoginReturns(c) == SessionReturns(c, "login")

RegisterReturns(c) == SessionReturns(c, "register")

\* AuthContext.jsx:82-84
Logout(c) == AuthCall(c, "logout")

\* AuthContext.jsx:85-91: the finally block
LogoutReturns(c) ==
    /\ calls[c].kind = "logout"
    /\ calls[c].phase = "settled"
    /\ calls' = [calls EXCEPT ![c].phase = "returned"]
    /\ store' = StoreAfterLogout(store)
    /\ user' = NoUser
    /\ UNCHANGED <<nextGen, redirected>>
    /\ UNCHANGED chatVars

\* localStorage outlives the page and is shared with the other tabs: a
\* page starts with no credentials or with the pair of an earlier login
Init ==
    /\ store \in {EmptyStore, Pair(1)}
    /\ calls = [c \in Calls |-> NoCall]
    /\ nextGen = 2
    /\ redirected = FALSE
    /\ messages = <<>>
    /\ currentConversation = NullConversation
    /\ isLoading = FALSE
    /\ isStreaming = FALSE
    /\ view = Snapshot
    /\ streams = [t \in Turns |-> NoStream]
    /\ turns = 0
    /\ crashed = FALSE
    /\ loads = 0
    /\ user = NoUser

\* the calls through api, and the request of one streaming call
Next ==
    \/ \E c \in Calls : ApiSend(c)
    \/ \E c \in Calls, status \in Statuses : ApiResponse(c, status)
    \/ \E c \in Calls : RefreshSucceeds(c)
    \/ \E c \in Calls : RefreshFails(c)
    \/ \E content \in Inputs : turns = 0 /\ HandleSubmit(content)
    \/ \E t \in Turns : StreamResponse(t, ShortScripts)
    \/ \E t \in Turns : StreamErrorBody(t)

Spec == Init /\ [][Next]_vars

\* the calls through api alone
NextCalls ==
    \/ \E c \in Calls : ApiSend(c)
    \/ \E c \in Calls, status \in Statuses : ApiResponse(c, status)
    \/ \E c \in Calls : RefreshSucceeds(c)
    \/ \E c \in Calls : RefreshFails(c)

\* every network exchange eventually returns: the answer to a transmission
\* of the descriptor arrives, and the refresh exchange succeeds or fails
ExchangesReturn ==
    \A c \in Calls :
        /\ WF_vars(\E status \in Statuses : ApiResponse(c, status))
        /\ WF_vars(RefreshSucceeds(c) \/ RefreshFails(c))

SpecCalls == Init /\ [][NextCalls]_vars /\ ExchangesReturn

\* the operations of AuthProvider, each on its own call descriptor
NextAuth ==
    \/ \E c \in Calls, status \in Statuses : ApiResponse(c, status)
    \/ \E c \in Calls : RefreshSucceeds(c)
    \/ \E c \in Calls : RefreshFails(c)
    \/ \E c \in Calls : CheckAuth(c)
    \/ \E c \in Calls : CheckAuthReturns(c)
    \/ \E c \in Calls : Login(c)
    \/ \E c \in Calls : LoginReturns(c)
    \/ \E c \in Calls : Register(c)
    \/ \E c \in Calls : RegisterReturns(c)
    \/ \E c \in Calls : Logout(c)
    \/ \E c \in Calls : LogoutReturns(c)

SpecAuth == Init /\ [][NextAuth]_vars

(***************************************************************************)
(* Properties of the refresh coordinator, checked under Spec.              *)
(***************************************************************************)
OriginalUnauthorized == [attempt |-> "original", status |-> Unauthorized]
ReplayUnauthorized == [attempt |-> "replay", status |-> Unauthorized]

\* C1: for one call descriptor there is at most one refresh exchange and at
\* most one replay; _retry goes from false to true and never back; a 401
\* that arrives while _retry is true settles the call, rejected with that
\* 401, and starts no refresh exchange.
C1_AtMostOneRefreshAndReplay ==
    [][\A c \in Calls :
          /\ calls[c].retry => calls'[c].retry
          /\ calls'[c].refreshes <= 1
          /\ calls'[c].sent <= 2
          /\ ( /\ calls[c].retry
               /\ calls'[c].error # calls[c].error
               /\ calls'[c].error.status = Unauthorized )
             => /\ calls'[c].phase = "settled"
                /\ calls'[c].result = "rejected"
                /\ calls'[c].error = ReplayUnauthorized
                /\ calls'[c].refreshes = calls[c].refreshes
                /\ calls'[c].sent = calls[c].sent]_vars

\* a call whose replay was answered 401 too
C1_Witness ==
    \E c \in Calls :
        /\ calls[c].phase = "settled"
        /\ calls[c].retry
        /\ calls[c].error = ReplayUnauthorized
        /\ calls[c].refreshes = 1
        /\ calls[c].sent = 2

\* C2: the step in which a refresh exchange succeeds replaces the stored
\* access token and the stored refresh token together by the new pair, so
\* that no state, hence no other call's step, sees one without the other.
C2_RefreshStoresBothAtOnce ==
    [][(\E c \in Calls : /\ calls[c].refresh = "pending"
                         /\ calls'[c].refresh = "succeeded")
       => /\ store'.access = nextGen
          /\ store'.refresh = nextGen
          /\ store'.access # store.access
          /\ store'.refresh # store.refresh]_vars

\* a refresh has stored its pair while another call is still in flight
C2_Witness ==
    \E c, d \in Calls :
        /\ c # d
        /\ calls[c].refresh = "succeeded"
        /\ calls[d].phase \in {"sent", "refreshing"}
        /\ store.access > 1
        /\ store.access = store.refresh

ExpectedHeader(st) ==
    IF st.access # NoToken THEN Bearer(st.access) ELSE NoHeader

\* C8: every transmission through api and every streaming request carries
\* Authorization: Bearer <the access token stored when it is sent>, and no
\* Authorization header when none is stored.
C8_EveryCallCarriesStoredCredential ==
    [][/\ \A c \in Calls :
              calls'[c].sent # calls[c].sent
              => calls'[c].auth = ExpectedHeader(store')
       /\ \A t \in Turns :
              (streams[t].phase = "none" /\ streams'[t].phase = "fetching")
              => streams'[t].auth = ExpectedHeader(store')]_vars

\* the part of C8 about the calls through api alone
C8_ApiCallsCarryStoredCredential ==
    [][\A c \in Calls :
          calls'[c].sent # calls[c].sent
          => calls'[c].auth = ExpectedHeader(store')]_vars

\* C9: when the refresh exchange fails both credentials are removed, the
\* redirect to /login is made, the call is not sent again and the caller's
\* promise is rejected with the original 401.
C9_RefreshFailureInvalidatesSession ==
    [][\A c \in Calls :
          (calls[c].refresh = "pending" /\ calls'[c].refresh = "failed")
          => /\ store' = EmptyStore
             /\ redirected'
             /\ calls'[c].sent = calls[c].sent
             /\ calls'[c].phase = "settled"
             /\ calls'[c].result = "rejected"
             /\ calls'[c].error = OriginalUnauthorized]_vars

\* a refresh exchange that posted a stored refresh token has failed
C9_Witness ==
    \E c \in Calls :
        /\ calls[c].refresh = "failed"
        /\ calls[c].refreshToken # NoToken
        /\ calls[c].result = "rejected"
        /\ store = EmptyStore
        /\ redirected

\* C10: a first 401 with no refresh token stored sends no refresh exchange,
\* clears the store, makes the redirect to /login and settles the call
\* with the original failure.
C10_NoRefreshTokenInvalidatesSession ==
    [][\A c \in Calls :
          ( /\ calls[c].phase = "sent"
            /\ ~calls[c].retry
            /\ calls'[c].retry
            /\ store.refresh = NoToken )
          => /\ calls'[c].refreshes = 0
             /\ store' = EmptyStore
             /\ redirected'
             /\ calls'[c].phase = "settled"
             /\ calls'[c].result = "rejected"
             /\ calls'[c].error = OriginalUnauthorized]_vars

(***************************************************************************)
(* Properties of the decoder and of one turn, checked under SpecStream.    *)
(***************************************************************************)
\* what a decoder that is given the whole lines of the body invokes
IdealFrames(t) == LinesCallbacks(Split(streams[t].body))

IsContent(c) == c.cb = "onChunk"

RECURSIVE ConcatContent(_)
ConcatContent(cbs) ==
    IF cbs = <<>> THEN <<>>
    ELSE (IF IsContent(Head(cbs)) THEN JSString(Head(cbs).arg) ELSE <<>>)
         \o ConcatContent(Tail(cbs))

\* the session's conversation when the only turn of the run started: the
\* list held the loaded messages exactly when a conversation was open
SessionAtStart ==
    IF Len(messages) = 2 THEN NullConversation ELSE ExistingConversation

\* turn t ran alone: its placeholder is still the last message, and its
\* handler had closed over the conversation the session had
Undisturbed(t) ==
    /\ ~crashed
    /\ messages # <<>>
    /\ messages[Len(messages)].id = Now(t) + 1
    /\ streams[t].conv = SessionAtStart

\* the first two reads of stream t are the two pieces of one content line
SplitEvent(t) ==
    LET ch == streams[t].chunks
    IN  /\ Len(ch) = 2
        /\ \A i \in 1..Len(ch[1]) : ch[1][i] # NL
        /\ {i \in 1..Len(ch[2]) : ch[2][i] = NL} = {Len(ch[2])}
        /\ LET cbs == ChunkCallbacks(ch[1] \o ch[2])
           IN  Len(cbs) = 1 /\ IsContent(cbs[1])

\* C3: an event split across two consecutive reads yields exactly one
\* content callback, carrying the whole fragment.
C3_SplitEventYieldsOneFrame ==
    \A t \in Turns :
        SplitEvent(t)
        => streams[t].log = ChunkCallbacks(streams[t].chunks[1]
                                           \o streams[t].chunks[2])

\* the body of stream t is content frames followed by one completion frame
ContentsThenDone(t) ==
    LET f == IdealFrames(t)
    IN  /\ Len(f) >= 2
        /\ \A i \in 1..(Len(f) - 1) : IsContent(f[i])
        /\ f[Len(f)].cb = "onDone"

\* C4: after a stream of content frames f1..fn and a completion frame with
\* identifier c, the assistant message holds f1 + ... + fn, and the session
\* has adopted c if it had no conversation, and kept its own otherwise.
C4_ContentIsConcatenationAndIdAdopted ==
    \A t \in Turns :
        ( /\ ContentsThenDone(t)
          /\ streams[t].phase = "ended"
          /\ streams[t].adopting = <<>>
          /\ Undisturbed(t) )
        => /\ messages[Len(messages)].content = ConcatContent(IdealFrames(t))
           /\ currentConversation =
                  IF SessionAtStart.set THEN SessionAtStart
                  ELSE Conversation(IdealFrames(t)[Len(IdealFrames(t))].arg)

\* the body of stream t is a content line, a prefixed line whose payload
\* does not parse, and a content line
MalformedBetweenContents(t) ==
    LET lines == Split(streams[t].body)
    IN  /\ Len(lines) = 4
        /\ lines[4] = <<>>
        /\ Len(LineCallbacks(lines[1])) = 1 /\ IsContent(LineCallbacks(lines[1])[1])
        /\ StartsWith(lines[2], Prefix)
        /\ ~JSONParse(SubSeq(lines[2], Len(Prefix) + 1, Len(lines[2]))).ok
        /\ Len(LineCallbacks(lines[3])) = 1 /\ IsContent(LineCallbacks(lines[3])[1])

\* C5: with a malformed line between two content frames, both frames are
\* applied in order, the malformed line invokes no callback, nothing is
\* thrown and the loop runs to the end of the stream.
C5_MalformedLineIsSkipped ==
    \A t \in Turns :
        ( /\ MalformedBetweenContents(t)
          /\ streams[t].wire = <<>>
          /\ streams[t].phase \in {"reading", "ended"} )
        => /\ streams[t].log = IdealFrames(t)
           /\ Undisturbed(t)
              => messages[Len(messages)].content
                     = ConcatContent(IdealFrames(t))

\* C7: starting a new chat while a turn is streaming cancels the stream:
\* the byte source is closed, so no later frame reaches the list, and the
\* list keeps the fragments applied so far.
C7_CancelClosesSourceAndKeepsList ==
    [][(HandleNewChat /\ \E t \in Turns : streams[t].phase = "reading")
       => /\ \A t \in Turns : streams'[t].phase \notin {"fetching", "reading"}
          /\ messages' = messages]_vars

(***************************************************************************)
(* Properties of the turns of a session, checked under SpecChat.           *)
(***************************************************************************)
\* turn t has been settled by a completion or an error
Settled(t) ==
    \E i \in 1..Len(streams[t].log) :
        streams[t].log[i].cb \in {"onDone", "onError"}

InProgress(t) == streams[t].phase # "none" /\ ~Settled(t)

C11_CredentialsStoredAndClearedTogether ==
    /\ (store.access = NoToken) <=> (store.refresh = NoToken)
    /\ store.access # NoToken => store = Pair(store.access)

\* a login or registration and a refresh exchange of another call have both
\* stored a pair
C11_Witness ==
    \E c, d \in Calls :
        /\ c # d
        /\ calls[c].kind \in {"login", "register"}
        /\ calls[c].phase = "returned"
        /\ calls[c].result = "resolved"
        /\ calls[d].refresh = "succeeded"
        /\ store.access > 1

(***************************************************************************)
(* Further properties of the response interceptor, checked under Spec.     *)
(***************************************************************************)
\* C12: a call answered with an error status other than 401, or with no
\* response at all, is rejected with that error; it is not sent again, no
\* refresh exchange is started, _retry is not set and the store is
\* unchanged.
C12_OtherFailuresPropagateUnchanged ==
    [][\A c \in Calls :
          ( /\ calls[c].phase \in {"sent", "replaying"}
            /\ calls'[c].phase # calls[c].phase
            /\ calls'[c].error # calls[c].error
            /\ calls'[c].error.status \notin {Unauthorized} )
          => /\ calls'[c].phase = "settled"
             /\ calls'[c].result = "rejected"
             /\ calls'[c].error.attempt =
                    (IF calls[c].phase = "sent" THEN "original" ELSE "replay")
             /\ calls'[c].sent = calls[c].sent
             /\ calls'[c].refreshes = calls[c].refreshes
             /\ calls'[c].refresh = calls[c].refresh
             /\ calls'[c].retry = calls[c].retry
             /\ store' = store
             /\ redirected' = redirected]_vars

\* a first transmission was answered with another error, or not at all,
\* while a pair was stored
C12_Witness ==
    \E c \in Calls :
        /\ calls[c].phase = "settled"
        /\ calls[c].result = "rejected"
        /\ calls[c].error.attempt = "original"
        /\ calls[c].error.status \in {500, 0}
        /\ ~calls[c].retry
        /\ calls[c].refreshes = 0
        /\ store.refresh # NoToken

\* C13: the streaming call goes through the refresh coordinator: when it is
\* answered 401 while a refresh token is stored, its turn is settled with an
\* error only after a refresh exchange and a second transmission.
C13_StreamingCallIsRefreshedAndReplayed ==
    \A t \in Turns :
        ( /\ streams[t].status = Unauthorized
          /\ streams[t].phase = "failed"
          /\ store.refresh # NoToken )
        => streams[t].sent = 2

(***************************************************************************)
(* Properties of a turn under the sidebar's operations, checked under      *)
(* SpecSession.                                                            *)
(***************************************************************************)
\* the message list holds the placeholder that was appended for turn t
HoldsPlaceholder(t) ==
    \E i \in 1..Len(messages) : messages[i].id = Now(t) + 1

\* C14: selecting a conversation, starting a new chat or deleting the
\* current conversation while a turn is streaming is rejected or cancels
\* the stream: no stream is still open once the message list it was started
\* for has been replaced.
C14_NoStreamOutlivesItsMessageList ==
    \A t \in Turns :
        streams[t].phase \in {"fetching", "errorBody", "reading"}
        => HoldsPlaceholder(t)

(***************************************************************************)
(* Further properties of the credential store, checked under SpecAuth.     *)
(***************************************************************************)
\* C15: a stored credential is removed only by logout or by a refresh
\* exchange that failed.
C15_StoreClearedOnlyByLogoutOrRefreshFailure ==
    [][( \/ store.access # NoToken /\ store'.access = NoToken
         \/ store.refresh # NoToken /\ store'.refresh = NoToken )
       => \E c \in Calls :
              \/ /\ calls[c].kind = "logout"
                 /\ calls[c].phase = "settled"
                 /\ calls'[c].phase = "returned"
              \/ /\ calls[c].refresh = "pending"
                 /\ calls'[c].refresh = "failed"]_vars

(***************************************************************************)
(* Concurrent calls and the replay, checked under Spec.                    *)
(***************************************************************************)
\* C16: every call whose first transmission is answered 401 while a refresh
\* token is stored starts a refresh exchange of its own, posting the
\* refresh token stored at that moment, whether or not the exchange of
\* another call is in flight.
C16_EachUnauthorizedCallRefreshesIndependently ==
    [][\A c \in Calls :
          ( /\ calls[c].phase = "sent"
            /\ ~calls[c].retry
            /\ calls'[c].error = OriginalUnauthorized
            /\ store.refresh # NoToken )
          => /\ calls'[c].phase = "refreshing"
             /\ calls'[c].refresh = "pending"
             /\ calls'[c].refreshes = 1
             /\ calls'[c].refreshToken = store.refresh]_vars

\* the refresh exchanges of all the calls are in flight at once, each
\* posting the same stored refresh token
C16_Witness ==
    \A c \in Calls :
        /\ calls[c].phase = "refreshing"
        /\ calls[c].refreshes = 1
        /\ calls[c].refreshToken = store.refresh
        /\ store.refresh # NoToken

\* C17: when the refresh exchange of one call fails because the refresh
\* token it posted has been rotated by the successful exchange of another
\* call, the pair that exchange stored stays in the store and no redirect
\* to /login is made.
C17_FailedRefreshKeepsRotatedPair ==
    [][\A c \in Calls :
          ( /\ calls[c].refresh = "pending"
            /\ calls'[c].refresh = "failed"
            /\ store.refresh # NoToken
            /\ calls[c].refreshToken # store.refresh
            /\ \E d \in Calls \ {c} : calls[d].refresh = "succeeded" )
          => /\ store' = store
             /\ redirected' = redirected]_vars

\* C18: the step in which a refresh exchange succeeds stores the new pair
\* and sends the descriptor again, once, with the new access token; the
\* answer to that transmission settles the call, resolved on a success and
\* rejected with the replay's error otherwise, and a settled call keeps its
\* result.
C18_ReplaySentOnceWithNewCredential ==
    [][\A c \in Calls :
          /\ (calls[c].refresh = "pending" /\ calls'[c].refresh = "succeeded")
             => /\ store' = Pair(nextGen)
                /\ calls'[c].phase = "replaying"
                /\ calls'[c].sent = 2
                /\ calls'[c].auth = Bearer(nextGen)
          /\ (calls[c].phase = "replaying" /\ calls'[c].phase # "replaying")
             => /\ calls'[c].phase = "settled"
                /\ calls'[c].sent = 2
                /\ calls'[c].refreshes = 1
                /\ \/ /\ calls'[c].result = "resolved"
                      /\ calls'[c].error = calls[c].error
                   \/ /\ calls'[c].result = "rejected"
                      /\ calls'[c].error.attempt = "replay"
          /\ calls[c].phase = "settled"
             => /\ calls'[c].result = calls[c].result
                /\ calls'[c].error = calls[c].error
                /\ calls'[c].sent = calls[c].sent]_vars

\* a call has been replayed with the access token of its refresh exchange
\* and the replay has succeeded
C18_Witness ==
    \E c \in Calls :
        /\ calls[c].refresh = "succeeded"
        /\ calls[c].phase = "settled"
        /\ calls[c].result = "resolved"
        /\ calls[c].sent = 2
        /\ calls[c].auth = Bearer(store.access)
        /\ store.access > 1

(***************************************************************************)
(* Errors of a turn, checked under SpecStream.                             *)
(***************************************************************************)
\* the body of stream t ends with an error frame
EndsWithErrorFrame(t) ==
    LET f == IdealFrames(t)
    IN  f # <<>> /\ f[Len(f)].cb = "onError"

\* turn t, not completed before, has met an error: a transport error, or an
\* error frame in a body that has been read to its end
MetError(t) ==
    /\ \A i \in 1..Len(streams[t].log) : streams[t].log[i].cb # "onDone"
    /\ \/ streams[t].phase = "failed"
       \/ streams[t].phase = "ended" /\ EndsWithErrorFrame(t)

\* the error turn t has met
ErrorOf(t) ==
    IF streams[t].phase = "failed"
    THEN streams[t].log[Len(streams[t].log)].arg
    ELSE IdealFrames(t)[Len(IdealFrames(t))].arg

\* C19: when a turn meets an error frame or a transport error, its
\* assistant message holds 'Error: <message>', the turn is settled
\* (isLoading and isStreaming are false, so that a new turn is accepted),
\* and the earlier messages, the conversation and the store are unchanged.
C19_ErrorSettlesTheTurnOnly ==
    \A t \in Turns :
        (Undisturbed(t) /\ MetError(t))
        => LET n == Len(messages)
           IN  /\ messages[n].content = ErrorPrefix \o JSString(ErrorOf(t))
               /\ ~isLoading
               /\ ~isStreaming
               /\ messages[n - 1].role = "user"
               /\ SubSeq(messages, 1, n - 2)
                      = (IF SessionAtStart.set THEN LoadedMessages ELSE <<>>)
               /\ currentConversation = SessionAtStart
               /\ store = Pair(1)

\* the detail field of an error body, or 'Failed to send message'
DetailOrDefault(body) ==
    LET r == JSONParse(body)
    IN  IF r.ok /\ Truthy(Get(r.v, KDetail))
        THEN JStr(JSString(Get(r.v, KDetail)))
        ELSE JStr(FailedToSendMessage)

\* C20: a streaming call answered with a non-success status reports one
\* error, built from the detail field of the error body or 'Failed to send
\* message', and reads no frame: onChunk and onDone are not invoked.
C20_ErrorStatusReportsBodyDetailOnce ==
    \A t \in Turns :
        (streams[t].status \in ErrorStatuses /\ streams[t].phase = "failed")
        => /\ streams[t].log
                  = <<Callback("onError", DetailOrDefault(streams[t].body))>>
           /\ streams[t].chunks = <<>>

(***************************************************************************)
(* Settlement of the turns of a session, checked under SpecChat.           *)
(***************************************************************************)
\* the callbacks stream t invokes in a step
NewCallbacks(t) ==
    SubSeq(streams'[t].log, Len(streams[t].log) + 1, Len(streams'[t].log))

\* stream t invokes onDone or onError in a step
Settles(t) ==
    \E i \in 1..Len(NewCallbacks(t)) :
        NewCallbacks(t)[i].cb \in {"onDone", "onError"}

\* C21: every settlement of a turn, by a completion frame, an error frame
\* or a transport error, leaves isLoading and isStreaming false and the
\* page able to accept the next turn.
C21_SettlementReturnsToIdle ==
    [][\A t \in Turns :
          Settles(t) => /\ ~isLoading'
                        /\ ~isStreaming'
                        /\ ~crashed']_vars

(***************************************************************************)
(* The frames of one stream after a settlement, checked under SpecStream.  *)
(***************************************************************************)
\* the content of the placeholder of turn t in the list msgs
ContentIn(msgs, t) ==
    LET at == {i \in 1..Len(msgs) : msgs[i].id = Now(t) + 1}
    IN  IF at = {} THEN <<>> ELSE msgs[CHOOSE i \in at : TRUE].content

\* C22: once a completion frame or an error frame of a turn has been
\* handled, the content frames its stream delivers afterwards leave the
\* content of the turn's assistant message unchanged.
C22_SettledMessageIsImmutable ==
    [][\A t \in Turns :
          ( /\ Settled(t)
            /\ HoldsPlaceholder(t)
            /\ NewCallbacks(t) # <<>>
            /\ \A i \in 1..Len(NewCallbacks(t)) :
                   NewCallbacks(t)[i].cb = "onChunk" )
          => ContentIn(messages', t) = ContentIn(messages, t)]_vars

(***************************************************************************)
(* The message list of a turn, checked under SpecSession.                  *)
(***************************************************************************)
\* C23: an accepted turn appends the user's message with the submitted
\* content and then an empty assistant placeholder, both in the step that
\* issues the streaming call; the callbacks of a stream change neither the
\* length of the list nor any user message.
C23_AcceptedTurnAppendsTwoMessages ==
    [][/\ turns' # turns
          => /\ turns' = turns + 1
             /\ \E content \in Inputs :
                    messages' = messages \o
                        << [id |-> Now(turns'), role |-> "user",
                            content |-> content],
                           [id |-> Now(turns') + 1, role |-> "assistant",
                            content |-> <<>>] >>
             /\ streams[turns'].phase = "none"
             /\ streams'[turns'].phase = "fetching"
             /\ streams'[turns'].log = <<>>
       /\ \A t \in Turns :
              NewCallbacks(t) # <<>>
              => /\ Len(messages') = Len(messages)
                 /\ \A i \in 1..Len(messages) :
                        messages[i].role = "user"
                        => messages'[i] = messages[i]]_vars

\* a turn was accepted after other messages and its placeholder has received
\* a fragment
C23_Witness ==
    \E t \in Turns :
        /\ \E i \in 1..Len(streams[t].log) : streams[t].log[i].cb = "onChunk"
        /\ Len(messages) = 4
        /\ messages[3].id = Now(t)
        /\ messages[3].role = "user"
        /\ messages[3].content \in Inputs
        /\ messages[4].id = Now(t) + 1
        /\ messages[4].content # <<>>


(***************************************************************************)
(* C24: what one complete line makes the decoder do.                       *)
(***************************************************************************)
\* the chunk read in this step, when the step read one
ChunkRead(t) ==
    IF Len(streams'[t].chunks) = Len(streams[t].chunks) + 1
    THEN streams'[t].chunks[Len(streams'[t].chunks)]
    ELSE <<>>

\* the step read exactly one complete line
ReadsOneLine(t) ==
    /\ ChunkRead(t) # <<>>
    /\ {i \in 1..Len(ChunkRead(t)) : ChunkRead(t)[i] = NL} = {Len(ChunkRead(t))}

LineRead(t) == SubSeq(ChunkRead(t), 1, Len(ChunkRead(t)) - 1)

PayloadRead(t) == JSONParse(SubSeq(LineRead(t), Len(Prefix) + 1, Len(LineRead(t))))

\* the three tests of a payload with the callback each one stands for
FieldTests(data) ==
    << [test |-> Get(data, KContent), call |-> Callback("onChunk", Get(data, KContent))],
       [test |-> Get(data, KDone), call |-> Callback("onDone", Get(data, KConversationId))],
       [test |-> Get(data, KError), call |-> Callback("onError", Get(data, KError))] >>

TruthyTests(data) == SelectSeq(FieldTests(data), LAMBDA f : Truthy(f.test))

CallsOfTruthyFields(data) == [i \in 1..Len(TruthyTests(data)) |-> TruthyTests(data)[i].call]

\* C24 as stated: a line without the prefix invokes no callback, and a
\* prefixed line whose payload parses invokes exactly one callback, onChunk
\* with the fragment, onDone with the conversation identifier or onError with
\* the message.
C24_ParsedLineInvokesExactlyOneCallback ==
    [][\A t \in Turns :
        ReadsOneLine(t) =>
            IF ~StartsWith(LineRead(t), Prefix) THEN NewCallbacks(t) = <<>>
            ELSE PayloadRead(t).ok =>
                    /\ Len(NewCallbacks(t)) = 1
                    /\ NewCallbacks(t)[1] \in
                          { Callback("onChunk", Get(PayloadRead(t).v, KContent)),
                            Callback("onDone", Get(PayloadRead(t).v, KConversationId)),
                            Callback("onError", Get(PayloadRead(t).v, KError)) }]_vars

\* C24 amended: a line without the prefix invokes no callback; a prefixed
\* line whose payload does not parse, or parses to null, invokes none; any
\* other prefixed line invokes one callback for each of the fields content,
\* done and error that is truthy, in that order: onChunk with the fragment,
\* onDone with the conversation identifier, onError with the message.
C24_OneCallbackPerTruthyField ==
    [][\A t \in Turns :
        ReadsOneLine(t) =>
            NewCallbacks(t) =
                IF ~StartsWith(LineRead(t), Prefix) THEN <<>>
                ELSE IF ~PayloadRead(t).ok \/ PayloadRead(t).v.t = "null" THEN <<>>
                ELSE CallsOfTruthyFields(PayloadRead(t).v)]_vars

\* a body whose first line carried a fragment and a completion was read
\* line by line: that line invoked onChunk and onDone, the null payload and
\* the malformed line that followed invoked nothing
C24_Witness ==
    \E t \in Turns :
        /\ streams[t].phase = "ended"
        /\ streams[t].chunks = << ContentDoneLine \o <<NL>>, NullLine \o <<NL>>,
                                  MalformedLine \o <<NL>> >>
        /\ streams[t].log = << Callback("onChunk", JStr(<<"A">>)),
                               Callback("onDone", JNum(7)) >>

(***************************************************************************)
(* C25: logout clears the credentials and the user, however its call ended.*)
(***************************************************************************)
\* logout on descriptor c completes in this step
LogoutCompletes(c) ==
    /\ calls[c].kind = "logout"
    /\ calls[c].phase = "settled"
    /\ calls'[c].phase = "returned"

\* C25: when logout completes, whether its backend call succeeded, failed or
\* went through a refresh and a replay, and whether or not credentials were
\* stored before, both credentials are absent and the user is null; a logout
\* that completes in that state leaves it unchanged.
C25_LogoutAlwaysClears ==
    [][\A c \in Calls :
        LogoutCompletes(c) =>
            /\ store' = EmptyStore
            /\ user' = NoUser
            /\ (store = EmptyStore /\ user = NoUser) => (store' = store /\ user' = user)]_vars

\* two logouts have completed: the call of one was refreshed and replayed
\* with the stored pair, the call of the other was rejected with nothing
\* stored
C25_Witness ==
    \E c, d \in Calls :
        /\ c # d
        /\ calls[c].kind = "logout" /\ calls[c].phase = "returned"
        /\ calls[c].refresh = "succeeded" /\ calls[c].sent = 2
        /\ calls[d].kind = "logout" /\ calls[d].phase = "returned"
        /\ calls[d].result = "rejected" /\ calls[d].auth = NoHeader
        /\ store = EmptyStore
        /\ user = NoUser

(***************************************************************************)
(* C26: a call through api settles after at most three exchanges.          *)
(***************************************************************************)
\* the network exchanges made for descriptor c: its transmissions and its
\* refresh exchanges
Exchanges(c) == calls[c].sent + calls[c].refreshes

\* C26: every call through the axios client settles, whatever the server
\* answers and provided each exchange returns, after at most three network
\* exchanges: the original send, one refresh exchange and one replay; a
\* failed refresh exchange settles the call and starts no further refresh.
C26_CallSettlesWithinThreeExchanges ==
    /\ [](\A c \in Calls : /\ Exchanges(c) <= 3
                           /\ calls[c].sent <= 2
                           /\ calls[c].refreshes <= 1)
    /\ [][\A c \in Calls :
            (calls[c].phase = "refreshing" /\ calls'[c].refresh = "failed")
                => /\ calls'[c].phase = "settled"
                   /\ calls'[c].refreshes = calls[c].refreshes]_vars
    /\ \A c \in Calls : (calls[c].phase = "sent") ~> (calls[c].phase = "settled")

\* a call has settled after its three exchanges, and another after a
\* refresh exchange that failed
C26_Witness ==
    \E c, d \in Calls :
        /\ calls[c].phase = "settled"
        /\ calls[c].sent = 2 /\ calls[c].refreshes = 1
        /\ calls[c].refresh = "succeeded"
        /\ calls[d].phase = "settled"
        /\ calls[d].sent = 1 /\ calls[d].refreshes = 1
        /\ calls[d].refresh = "failed"

(***************************************************************************)
(* C27: a 401 on the replay rejects the call and changes nothing else.     *)
(***************************************************************************)
\* the replay of descriptor c is answered 401 in this step
ReplayAnswered401(c) ==
    /\ calls[c].phase = "replaying"
    /\ calls[c].retry
    /\ calls'[c].phase # "replaying"
    /\ calls'[c].error = ReplayUnauthorized

\* the store holds the pair that the refresh exchange of descriptor c wrote
HoldsPairOfRefresh(st, c) ==
    /\ calls[c].refresh = "succeeded"
    /\ st.access # NoToken
    /\ st = Pair(st.access)
    /\ calls[c].auth = Bearer(st.access)

\* C27: when the replay itself is answered 401, the call is rejected with
\* that 401 and nothing else changes: the store keeps what it held, so the
\* pair written by the preceding refresh stays stored, no credential is
\* removed, no redirect to /login is raised, no refresh exchange starts and
\* no other call is touched.
C27_ReplayRejectionChangesNothingElse ==
    [][\A c \in Calls :
        ReplayAnswered401(c) =>
            /\ calls'[c] = [calls[c] EXCEPT !.phase = "settled",
                                            !.result = "rejected",
                                            !.error = ReplayUnauthorized]
            /\ \A d \in Calls \ {c} : calls'[d] = calls[d]
            /\ store' = store
            /\ HoldsPairOfRefresh(store, c) => HoldsPairOfRefresh(store', c)
            /\ redirected' = redirected
            /\ nextGen' = nextGen
            /\ user' = user]_vars

\* a call rejected by the 401 of its replay, with the pair written by its
\* refresh exchange still stored and no redirect raised
C27_Witness ==
    \E c \in Calls :
        /\ calls[c].phase = "settled"
        /\ calls[c].result = "rejected"
        /\ calls[c].error = ReplayUnauthorized
        /\ HoldsPairOfRefresh(store, c)
        /\ store.refresh # NoToken
        /\ ~redirected

(***************************************************************************)
(* C28: the frames of a turn touch the placeholder of that turn only.      *)
(***************************************************************************)
\* stream t invokes onChunk or onError in this step
MutatingCallback(t) ==
    \E i \in 1..Len(NewCallbacks(t)) : NewCallbacks(t)[i].cb \in {"onChunk", "onError"}

\* C28: a content or error callback of a turn changes no message but the
\* assistant placeholder created for that turn, also after loadConversation,
\* handleNewChat or handleDeleteConversation ran during streaming, and never
\* runs against an empty message list.
C28_FramesMutateOnlyOwnPlaceholder ==
    [][\A t \in Turns :
        (~crashed /\ MutatingCallback(t)) =>
            /\ messages # <<>>
            /\ ~crashed'
            /\ Len(messages') = Len(messages)
            /\ \A i \in 1..Len(messages) :
                   messages[i].id # Now(t) + 1 => messages'[i] = messages[i]]_vars

(***************************************************************************)
(* C29: a turn whose body ends without a terminal frame.                   *)
(***************************************************************************)
\* C29: every accepted turn returns to Idle once its byte source has ended:
\* when the body ends without a completion frame or an error frame having
\* been delivered, isLoading and isStreaming still become false, and the
\* rendered page accepts a new turn.
C29_EndOfDataReturnsToIdle ==
    \A t \in Turns :
        (streams[t].phase = "ended" /\ ~Settled(t))
            ~> (~isLoading /\ ~isStreaming /\ ~view.isLoading /\ ~view.isStreaming)

(***************************************************************************)
(* C30: the settlement callbacks of one streamChat call.                   *)
(***************************************************************************)
\* the settlement callbacks stream t has invoked so far
Settlements(t) ==
    SelectSeq(streams[t].log, LAMBDA c : c.cb \in {"onDone", "onError"})

\* C30: a streamChat call invokes exactly one settlement callback over its
\* lifetime, onDone once or onError once: at no time has it invoked two, and
\* when it has returned it has invoked one.
C30_ExactlyOneSettlement ==
    \A t \in Turns :
        /\ Len(Settlements(t)) <= 1
        /\ streams[t].phase \in {"ended", "failed"} => Len(Settlements(t)) = 1
====
